---- MODULE Spec2Model ----
(***************************************************************************)
(* Model of the Talos hex decoder (src/decoder.py) and of its history      *)
(* store (src/history.py, src/models.py).                                  *)
(*                                                                         *)
(* A Python str is a sequence of Unicode code points (naturals).  Python   *)
(* offsets are 0-based and slices are half-open; the model keeps the       *)
(* 0-based offsets of the code and converts in Slice and CharAt.           *)
(***************************************************************************)
EXTENDS Integers, Sequences, FiniteSets, TLC

VARIABLES
    text,       \* decoder: the text buffer handed to decode_text
    typed,      \* decoder: number of pieces entered into the buffer
    result,     \* decoder: the DecodeResult of the last decode_text call
    pc,         \* decoder: "edit" while typing, "decoded" after decode_text
    file,       \* history: content of talos_history.json
    last,       \* history: the last operation, its arguments and outcome
    log,        \* history: every entry appended so far, in call order
    procs       \* history: the position of each concurrent writer in its call

vars == <<text, typed, result, pc, file, last, log, procs>>

decoderVars == <<text, typed, result, pc>>
historyVars == <<file, last, log>>

(***************************************************************************)
(* Bounds                                                                  *)
(***************************************************************************)
\* pieces typed into the text buffer before decoding
MaxPieces == 7

(***************************************************************************)
(* Characters                                                              *)
(***************************************************************************)
\* "\n", where $ matches under re.MULTILINE
NL == 10
\* U+FFFD, inserted by errors="replace"
REPLACEMENT_CHAR == 65533

\* str.isspace / regex \s on a Unicode str pattern
IsSpace(c) ==
    \/ c \in 9..13
    \/ c \in 28..32
    \/ c \in {133, 160, 5760, 8232, 8233, 8239, 8287, 12288}
    \/ c \in 8192..8202

\* [0-9A-Fa-f]
IsHex(c) == c \in 48..57 \/ c \in 65..70 \/ c \in 97..102

\* regex \w on a Unicode str pattern: alphanumeric or underscore.  Code
\* points above Latin-1 are decided only for U+FFFD, the one the decoder
\* inserts.
IsWord(c) ==
    \/ c \in 48..57
    \/ c \in 65..90
    \/ c \in 97..122
    \/ c = 95
    \/ c \in {170, 178, 179, 181, 185, 186, 188, 189, 190}
    \/ c \in 192..214
    \/ c \in 216..246
    \/ c \in 248..255

\* int(c, 16) of one hex digit
HexVal(c) ==
    IF c \in 48..57 THEN c - 48
    ELSE IF c \in 65..70 THEN c - 55
    ELSE c - 87

(***************************************************************************)
(* Python str helpers                                                      *)
(***************************************************************************)
\* s[a:b] for 0 <= a <= b <= len(s)
Slice(s, a, b) == SubSeq(s, a + 1, b)

\* s[i]
CharAt(s, i) == s[i + 1]

\* str.rstrip(): drop the trailing whitespace
RECURSIVE rstrip(_)
rstrip(s) ==
    IF Len(s) > 0 /\ IsSpace(s[Len(s)])
    THEN rstrip(SubSeq(s, 1, Len(s) - 1))
    ELSE s

\* regex \b at offset i of s
WordBoundary(s, i) ==
    (i > 0 /\ IsWord(CharAt(s, i - 1))) # (i < Len(s) /\ IsWord(CharAt(s, i)))

\* the pattern without its |$ alternative: whitespace must follow a token
Dollar_Never(s, i) == FALSE

\* regex $ under re.MULTILINE at offset i of s
Dollar(s, i) == i = Len(s) \/ CharAt(s, i) = NL

\* regex \b[0-9A-Fa-f]{2}\b matched at offset i of s
TokenAt(s, i) ==
    /\ i + 2 <= Len(s)
    /\ WordBoundary(s, i)
    /\ IsHex(CharAt(s, i))
    /\ IsHex(CharAt(s, i + 1))
    /\ WordBoundary(s, i + 2)

\* greedy \s+ from offset i of s: the offset after the whitespace
RECURSIVE SkipSpace(_, _)
SkipSpace(s, i) ==
    IF i < Len(s) /\ IsSpace(CharAt(s, i)) THEN SkipSpace(s, i + 1) ELSE i

(***************************************************************************)
(* bytes.decode("utf-8", errors="replace")                                 *)
(***************************************************************************)
\* number of continuation bytes announced by lead byte b; 0 for ASCII,
\* -1 for a byte that cannot start a sequence
Utf8Need(b) ==
    IF b < 128 THEN 0
    ELSE IF b \in 194..223 THEN 1
    ELSE IF b \in 224..239 THEN 2
    ELSE IF b \in 240..244 THEN 3
    ELSE -1

\* the values the byte after lead byte b may take
Utf8Second(b) ==
    IF b = 224 THEN 160..191
    ELSE IF b = 237 THEN 128..159
    ELSE IF b = 240 THEN 144..191
    ELSE IF b = 244 THEN 128..143
    ELSE 128..191

\* the k-th byte after the lead byte at index i continues the sequence
Utf8ContOk(bs, i, k) ==
    /\ i + k <= Len(bs)
    /\ IF k = 1 THEN bs[i + k] \in Utf8Second(bs[i]) ELSE bs[i + k] \in 128..191

\* how many of the announced continuation bytes are present and valid
Utf8Good(bs, i, need) ==
    IF ~Utf8ContOk(bs, i, 1) THEN 0
    ELSE IF need = 1 \/ ~Utf8ContOk(bs, i, 2) THEN 1
    ELSE IF need = 2 \/ ~Utf8ContOk(bs, i, 3) THEN 2
    ELSE 3

\* the code point of the well-formed sequence of need+1 bytes at index i
Utf8CodePoint(bs, i, need) ==
    IF need = 1 THEN (bs[i] - 192) * 64 + (bs[i + 1] - 128)
    ELSE IF need = 2
    THEN ((bs[i] - 224) * 64 + (bs[i + 1] - 128)) * 64 + (bs[i + 2] - 128)
    ELSE (((bs[i] - 240) * 64 + (bs[i + 1] - 128)) * 64 + (bs[i + 2] - 128)) * 64
         + (bs[i + 3] - 128)

\* decode bs from index i on; an ill-formed byte or a truncated sequence
\* (its maximal well-formed prefix) becomes one U+FFFD
RECURSIVE Utf8DecodeFrom(_, _)
Utf8DecodeFrom(bs, i) ==
    IF i > Len(bs) THEN <<>>
    ELSE LET need == Utf8Need(bs[i])
             good == Utf8Good(bs, i, need)
         IN  IF need = 0 THEN <<bs[i]>> \o Utf8DecodeFrom(bs, i + 1)
             ELSE IF need = -1 THEN <<REPLACEMENT_CHAR>> \o Utf8DecodeFrom(bs, i + 1)
             ELSE IF good = need
             THEN <<Utf8CodePoint(bs, i, need)>> \o Utf8DecodeFrom(bs, i + need + 1)
             ELSE <<REPLACEMENT_CHAR>> \o Utf8DecodeFrom(bs, i + good + 1)

Utf8Decode(bs) == Utf8DecodeFrom(bs, 1)

\* "".join(parts)
RECURSIVE Join(_)
Join(parts) ==
    IF parts = <<>> THEN <<>> ELSE Head(parts) \o Join(Tail(parts))

\* bytes.fromhex(hx) for a string of hex digit pairs
FromHex(hx) ==
    [k \in 1..(Len(hx) \div 2) |-> HexVal(hx[2 * k - 1]) * 16 + HexVal(hx[2 * k])]

\* bytes.fromhex raises ValueError unless hx is pairs of hex digits
FromHexOk(hx) ==
    /\ Len(hx) % 2 = 0
    /\ \A k \in 1..Len(hx) : IsHex(hx[k])

(***************************************************************************)
(* src/decoder.py                                                          *)
(***************************************************************************)
\* the {3,} of HEX_RUN
HEX_RUN_MIN == 3

\* a decode with errors="strict" inside the try: "" for ill-formed bytes
decode_hex_bytes_Strict(byte_tokens) ==
    LET hx == Join(byte_tokens)
        out == IF FromHexOk(hx) THEN Utf8Decode(FromHex(hx)) ELSE <<>>
    IN  IF \E k \in 1..Len(out) : out[k] = REPLACEMENT_CHAR THEN <<>> ELSE out

\* _decode_hex_bytes: "" when the conversion raises
decode_hex_bytes(byte_tokens) ==
    LET hx == Join(byte_tokens)
    IN  IF FromHexOk(hx) THEN Utf8Decode(FromHex(hx)) ELSE <<>>

\* re.findall(r"\b[0-9A-Fa-f]{2}\b", s), scanning from offset i
RECURSIVE FindTokensFrom(_, _)
FindTokensFrom(s, i) ==
    IF i + 2 > Len(s) THEN <<>>
    ELSE IF TokenAt(s, i)
    THEN <<Slice(s, i, i + 2)>> \o FindTokensFrom(s, i + 2)
    ELSE FindTokensFrom(s, i + 1)

FindTokens(s) == FindTokensFrom(s, 0)

\* the greedy repetition (?:\b[0-9A-Fa-f]{2}\b(?:\s+|$))* from offset i,
\* n groups matched so far: the number of groups and the offset reached
RECURSIVE HexRunFrom(_, _, _)
HexRunFrom(s, i, n) ==
    IF TokenAt(s, i) /\ (SkipSpace(s, i + 2) > i + 2 \/ Dollar(s, i + 2))
    THEN HexRunFrom(s, SkipSpace(s, i + 2), n + 1)
    ELSE [count |-> n, end |-> i]

\* HEX_RUN with the quantifier {2,}
HEX_RUN_Min2(s, i) ==
    LET r == HexRunFrom(s, i, 0)
    IN  IF r.count >= 2 THEN r.end ELSE -1

\* HEX_RUN matched at offset i: the end offset of the match, -1 for none
HEX_RUN(s, i) ==
    LET r == HexRunFrom(s, i, 0)
    IN  IF r.count >= HEX_RUN_MIN THEN r.end ELSE -1

\* finditer resuming one character after the start of a match instead of at
\* its end
RECURSIVE FindIterFrom_Overlapping(_, _)
FindIterFrom_Overlapping(s, pos) ==
    IF pos > Len(s) THEN <<>>
    ELSE LET e == HEX_RUN(s, pos)
         IN  IF e >= 0
             THEN <<[start |-> pos, end |-> e]>> \o FindIterFrom_Overlapping(s, pos + 1)
             ELSE FindIterFrom_Overlapping(s, pos + 1)

\* HEX_RUN.finditer(s): the spans of the non-overlapping matches, searched
\* from offset pos on
RECURSIVE FindIterFrom(_, _)
FindIterFrom(s, pos) ==
    IF pos > Len(s) THEN <<>>
    ELSE LET e == HEX_RUN(s, pos)
         IN  IF e >= 0
             THEN <<[start |-> pos, end |-> e]>> \o FindIterFrom(s, e)
             ELSE FindIterFrom(s, pos + 1)

\* the trailing whitespace of a run: run[len(run.rstrip()):]
TrailingWs(run) == SubSeq(run, Len(rstrip(run)) + 1, Len(run))

\* ReplacementOf recording the end of the stripped run instead of m.end()
ReplacementOf_EndStripped(s, m) ==
    LET run == Slice(s, m.start, m.end)
        decoded == decode_hex_bytes(FindTokens(rstrip(run)))
    IN  [keep |-> decoded # <<>>,
         rep |-> [start |-> m.start, end |-> m.start + Len(rstrip(run)),
                  hex_run |-> run, decoded |-> decoded \o TrailingWs(run)]]

\* ReplacementOf recording run_stripped instead of run as hex_run
ReplacementOf_HexRunStripped(s, m) ==
    LET run == Slice(s, m.start, m.end)
        decoded == decode_hex_bytes(FindTokens(rstrip(run)))
    IN  [keep |-> decoded # <<>>,
         rep |-> [start |-> m.start, end |-> m.end,
                  hex_run |-> rstrip(run), decoded |-> decoded \o TrailingWs(run)]]

\* ReplacementOf that does not re-append the trailing whitespace
ReplacementOf_NoTrailing(s, m) ==
    LET run == Slice(s, m.start, m.end)
        decoded == decode_hex_bytes(FindTokens(rstrip(run)))
    IN  [keep |-> decoded # <<>>,
         rep |-> [start |-> m.start, end |-> m.end,
                  hex_run |-> run, decoded |-> decoded]]

\* the body of the loop of find_replacements for one match m
ReplacementOf(s, m) ==
    LET run == Slice(s, m.start, m.end)
        run_stripped == rstrip(run)
        trailing_ws == IF Len(run_stripped) < Len(run)
                       THEN SubSeq(run, Len(run_stripped) + 1, Len(run))
                       ELSE <<>>
        tokens == FindTokens(run_stripped)
        decoded == decode_hex_bytes(tokens)
    IN  [keep |-> decoded # <<>>,
         rep |-> [start |-> m.start, end |-> m.end, hex_run |-> run,
                  decoded |-> decoded \o trailing_ws]]

find_replacements(s) ==
    LET ms == FindIterFrom(s, 0)
        all == [k \in 1..Len(ms) |-> ReplacementOf(s, ms[k])]
        kept == SelectSeq(all, LAMBDA c : c.keep)
    IN  [k \in 1..Len(kept) |-> kept[k].rep]

Min(a, b) == IF a < b THEN a ELSE b

\* out[:a] + ins + out[b:], with Python's clamping of slice bounds
Splice(out, a, b, ins) ==
    SubSeq(out, 1, Min(a, Len(out))) \o ins \o SubSeq(out, Min(b, Len(out)) + 1, Len(out))

\* the loop run over reps instead of reversed(reps): reps[1] up to reps[n],
\* each with the offsets it had in the original text
RECURSIVE ApplyReversed_Forward(_, _, _)
ApplyReversed_Forward(out, reps, k) ==
    IF k = 0 THEN out
    ELSE LET r == reps[Len(reps) - k + 1]
         IN  ApplyReversed_Forward(Splice(out, r.start, r.end, r.decoded),
                                   reps, k - 1)

\* the loop of apply_replacements over reversed(reps): reps[k] down to reps[1]
RECURSIVE ApplyReversed(_, _, _)
ApplyReversed(out, reps, k) ==
    IF k = 0 THEN out
    ELSE ApplyReversed(Splice(out, reps[k].start, reps[k].end, reps[k].decoded),
                       reps, k - 1)

apply_replacements(s, reps) ==
    IF Len(reps) = 0 THEN s ELSE ApplyReversed(s, reps, Len(reps))

decode_text(s) ==
    LET reps == find_replacements(s)
    IN  [original |-> s,
         decoded |-> apply_replacements(s, reps),
         replacements |-> reps,
         num_replacements |-> Len(reps)]

(***************************************************************************)
(* src/models.py, src/history.py                                           *)
(*                                                                         *)
(* The history file is absent, [exists |-> FALSE], or holds a document,    *)
(* [exists |-> TRUE, doc |-> d].  A document d = [t |-> kind, v |-> ...]   *)
(* is what reading and parsing the file yields:                            *)
(*   "binary"   bytes that are not UTF-8 text                              *)
(*   "invalid"  text that is not JSON (empty, truncated, garbage)          *)
(*   "array"    a JSON array, v its elements                               *)
(*   "object"   a JSON object, v its keys                                  *)
(*   "string"   a JSON string, v its characters                            *)
(*   "scalar"   a JSON number, true, false or null                         *)
(* An element of an array is again [t |-> kind, v |-> ...]; for an object  *)
(* element v is the mapping from its keys to their values.                 *)
(***************************************************************************)
MAX_HISTORY_ENTRIES == 1000

\* appends made in the specification Spec
MaxAppends == 3
\* instants the wall clock can show in the specification Spec
MaxTime == 2
\* appends made past MAX_HISTORY_ENTRIES in the specification SpecFifo
MaxOverflow == 2
\* elements of a history file written by another program
MaxItems == 2

Missing == [exists |-> FALSE]
Holding(d) == [exists |-> TRUE, doc |-> d]

\* the file after open(HISTORY_FILE, 'w') truncated it and the write failed
Truncated == [t |-> "invalid", v |-> <<>>]

\* the keys of a persisted entry
EntryKeys == {"timestamp", "original", "decoded", "num_replacements", "replacements"}

\* datetime.isoformat() of the instant t: distinct instants, distinct strings
isoformat(t) == <<t>>

\* dict.get(k, default)
Get(d, k, default) == IF k \in DOMAIN d THEN d[k] ELSE default

\* HistoryEntry.from_dict
from_dict(data) ==
    [timestamp |-> Get(data, "timestamp", <<>>),
     original |-> Get(data, "original", <<>>),
     decoded |-> Get(data, "decoded", <<>>),
     num_replacements |-> Get(data, "num_replacements", 0),
     replacements |-> Get(data, "replacements", <<>>)]

\* a to_dict that leaves num_replacements out of the object
to_dict_NoCount(e) ==
    [k \in EntryKeys \ {"num_replacements"} |->
        CASE k = "timestamp" -> e.timestamp
          [] k = "original" -> e.original
          [] k = "decoded" -> e.decoded
          [] k = "replacements" -> e.replacements]

\* HistoryEntry.to_dict
to_dict(e) ==
    [k \in EntryKeys |->
        CASE k = "timestamp" -> e.timestamp
          [] k = "original" -> e.original
          [] k = "decoded" -> e.decoded
          [] k = "num_replacements" -> e.num_replacements
          [] k = "replacements" -> e.replacements]

\* json.dump of a list of dicts, then json.load of the text written
JsonArray(dicts) ==
    [t |-> "array", v |-> [k \in 1..Len(dicts) |-> [t |-> "object", v |-> dicts[k]]]]

Returned(value) == [raised |-> "none", value |-> value]
Raised(exc) == [raised |-> exc, value |-> <<>>]

\* a comprehension that keeps only the objects holding every entry key
FromData_SkipIncomplete(d) ==
    IF d.t = "scalar" THEN Raised("TypeError")
    ELSE IF Len(d.v) = 0 THEN Returned(<<>>)
    ELSE IF d.t # "array" \/ \E k \in 1..Len(d.v) : d.v[k].t # "object"
    THEN Raised("AttributeError")
    ELSE LET Complete(item) == DOMAIN item.v = EntryKeys
         IN  Returned([k \in 1..Len(SelectSeq(d.v, Complete)) |->
                          from_dict(SelectSeq(d.v, Complete)[k].v)])

\* [HistoryEntry.from_dict(entry) for entry in data]
FromData(d) ==
    IF d.t = "scalar" THEN Raised("TypeError")
    ELSE IF Len(d.v) = 0 THEN Returned(<<>>)
    ELSE IF d.t # "array" \/ \E k \in 1..Len(d.v) : d.v[k].t # "object"
    THEN Raised("AttributeError")
    ELSE Returned([k \in 1..Len(d.v) |-> from_dict(d.v[k].v)])

\* load_history on the file f; readOk: open() and read() succeed
load_history(f, readOk) ==
    IF ~f.exists THEN Returned(<<>>)
    ELSE IF ~readOk THEN Returned(<<>>)
    ELSE IF f.doc.t = "binary" THEN Raised("UnicodeDecodeError")
    ELSE IF f.doc.t = "invalid" THEN Returned(<<>>)
    ELSE FromData(f.doc)

\* the outcomes of the write in save_history
WriteOutcomes == {"ok", "open_fails", "write_fails"}

\* save_history: the file after the call; the IOError of a failed open or
\* write is swallowed
save_history(f, history, write) ==
    IF write = "ok"
    THEN Holding(JsonArray([k \in 1..Len(history) |-> to_dict(history[k])]))
    ELSE IF write = "open_fails" THEN f
    ELSE Holding(Truncated)

\* the HistoryEntry built by add_to_history, recording the lengths of the
\* hex runs in place of the offsets
NewEntry_SpanLengths(original, decoded, replacements, now) ==
    [timestamp |-> isoformat(now),
     original |-> original,
     decoded |-> decoded,
     num_replacements |-> Len(replacements),
     replacements |->
        [k \in 1..Len(replacements) |->
            [hex_run |-> replacements[k].hex_run,
             decoded |-> replacements[k].decoded,
             start |-> replacements[k].start,
             end |-> Len(replacements[k].hex_run)]]]

\* the HistoryEntry built by add_to_history
NewEntry(original, decoded, replacements, now) ==
    [timestamp |-> isoformat(now),
     original |-> original,
     decoded |-> decoded,
     num_replacements |-> Len(replacements),
     replacements |->
        [k \in 1..Len(replacements) |->
            [hex_run |-> replacements[k].hex_run,
             decoded |-> replacements[k].decoded,
             start |-> replacements[k].start,
             end |-> replacements[k].end]]]

\* truncation that lets one entry more than MAX_HISTORY_ENTRIES stay
Retain_OffByOne(history) ==
    IF Len(history) > MAX_HISTORY_ENTRIES + 1
    THEN SubSeq(history, Len(history) - MAX_HISTORY_ENTRIES, Len(history))
    ELSE history

\* truncation that keeps the first MAX_HISTORY_ENTRIES entries
Retain_Oldest(history) ==
    IF Len(history) > MAX_HISTORY_ENTRIES
    THEN SubSeq(history, 1, MAX_HISTORY_ENTRIES)
    ELSE history

\* history[-MAX_HISTORY_ENTRIES:] when the bound is exceeded
Retain(history) ==
    IF Len(history) > MAX_HISTORY_ENTRIES
    THEN SubSeq(history, Len(history) - MAX_HISTORY_ENTRIES + 1, Len(history))
    ELSE history

\* identity that compares the timestamp only
SameIdentity_TimestampOnly(e, entry) == e.timestamp = entry.timestamp

\* the comparison of delete_history_entry
SameIdentity(e, entry) ==
    /\ e.timestamp = entry.timestamp
    /\ e.original = entry.original
    /\ e.decoded = entry.decoded

\* the index at which the loop of delete_history_entry stops, scanning from
\* index i: the first index with the identity of entry; 0 when the loop
\* runs to the end
ScanFrom(history, entry, i) ==
    LET hits == {k \in i..Len(history) : SameIdentity(history[k], entry)}
    IN  IF hits = {} THEN 0
        ELSE CHOOSE k \in hits : \A j \in hits : k <= j

\* list.pop that removes every entry with the identity of history[i]
Pop_AllMatching(history, i) ==
    SelectSeq(history, LAMBDA e : ~SameIdentity(e, history[i]))

\* list.pop() without its index: the last entry is removed
Pop_Last(history, i) == SubSeq(history, 1, Len(history) - 1)

\* history.pop(i), i counted from 1
Pop(history, i) ==
    SubSeq(history, 1, i - 1) \o SubSeq(history, i + 1, Len(history))

\* the record of one operation: its name, the file before it, its entry
\* argument (delete) or the entry it built (add), the texts and the
\* replacements given (add), the outcome of its read, the outcome of its
\* save ("none" when it did not save), what it returned and what it raised
NoEntry ==
    [timestamp |-> <<>>, original |-> <<>>, decoded |-> <<>>,
     num_replacements |-> 0, replacements |-> <<>>]

NoOp ==
    [op |-> "none", before |-> Missing, entry |-> NoEntry,
     original |-> <<>>, decoded |-> <<>>, reps |-> <<>>, readOk |-> TRUE,
     saved |-> "none", ret |-> FALSE, value |-> <<>>, count |-> 0,
     raised |-> "none"]

\* the processes that call the history store at the same time
Procs == {1, 2}

\* a process that has not called the store
Idle ==
    [pc |-> "idle", op |-> "none", entry |-> NoEntry, history |-> <<>>,
     ret |-> FALSE, overlapped |-> FALSE]

NoWriters == [p \in Procs |-> Idle]

\* get_history_count on the file f: len(load_history())
get_history_count(f, readOk) ==
    LET ld == load_history(f, readOk)
    IN  [raised |-> ld.raised, count |-> Len(ld.value)]

\* history_count = get_history_count() as called on the main menu
GetHistoryCount(readOk) ==
    LET c == get_history_count(file, readOk)
    IN  /\ last' = [NoOp EXCEPT !.op = "count", !.before = file,
                                !.readOk = readOk, !.count = c.count,
                                !.raised = c.raised]
        /\ UNCHANGED <<file, log>>
        /\ UNCHANGED <<decoderVars, procs>>

\* history = load_history() as called on the history screen
LoadHistory(readOk) ==
    LET ld == load_history(file, readOk)
    IN  /\ last' = [NoOp EXCEPT !.op = "load", !.before = file,
                                !.readOk = readOk, !.value = ld.value,
                                !.raised = ld.raised]
        /\ UNCHANGED <<file, log>>
        /\ UNCHANGED <<decoderVars, procs>>

\* add_to_history(original, decoded, replacements) at the instant now
AddToHistory(original, decoded, replacements, now, readOk, write) ==
    LET ld == load_history(file, readOk)
        entry == NewEntry(original, decoded, replacements, now)
        history == Retain(Append(ld.value, entry))
    IN  IF ld.raised # "none"
        THEN /\ last' = [NoOp EXCEPT !.op = "add", !.before = file,
                                     !.original = original, !.decoded = decoded,
                                     !.reps = replacements, !.readOk = readOk,
                                     !.raised = ld.raised]
             /\ UNCHANGED <<file, log>>
             /\ UNCHANGED <<decoderVars, procs>>
        ELSE /\ file' = save_history(file, history, write)
             /\ log' = Append(log, entry)
             /\ last' = [NoOp EXCEPT !.op = "add", !.before = file,
                                     !.entry = entry,
                                     !.original = original, !.decoded = decoded,
                                     !.reps = replacements,
                                     !.readOk = readOk, !.saved = write]
             /\ UNCHANGED <<decoderVars, procs>>

\* delete_history_entry(entry)
DeleteHistoryEntry(entry, readOk, write) ==
    LET ld == load_history(file, readOk)
        i == ScanFrom(ld.value, entry, 1)
    IN  IF ld.raised # "none"
        THEN /\ last' = [NoOp EXCEPT !.op = "delete", !.before = file,
                                     !.entry = entry, !.readOk = readOk,
                                     !.raised = ld.raised]
             /\ UNCHANGED <<file, log>>
             /\ UNCHANGED <<decoderVars, procs>>
        ELSE IF i > 0
        THEN /\ file' = save_history(file, Pop(ld.value, i), write)
             /\ last' = [NoOp EXCEPT !.op = "delete", !.before = file,
                                     !.entry = entry, !.readOk = readOk,
                                     !.saved = write, !.ret = TRUE]
             /\ UNCHANGED log
             /\ UNCHANGED <<decoderVars, procs>>
        ELSE /\ last' = [NoOp EXCEPT !.op = "delete", !.before = file,
                                     !.entry = entry, !.readOk = readOk,
                                     !.ret = FALSE]
             /\ UNCHANGED <<file, log>>
             /\ UNCHANGED <<decoderVars, procs>>

(***************************************************************************)
(* Decoder: the text buffer and decode_text                                *)
(***************************************************************************)
\* the pieces of text typed or pasted into the buffer:
\*   "41 "   a token and a space          "c3 "   a lower-case token
\*   "A9"    a token with nothing after   "FF \n" a token, a space, a newline
\*   ".x "   prose
Pieces ==
    { <<52, 49, 32>>, <<99, 51, 32>>, <<65, 57>>, <<70, 70, 32, NL>>,
      <<46, 120, 32>> }

NoResult ==
    [original |-> <<>>, decoded |-> <<>>, replacements |-> <<>>,
     num_replacements |-> 0]

\* nothing typed, nothing decoded, no history file
Init ==
    /\ text = <<>>
    /\ typed = 0
    /\ result = NoResult
    /\ pc = "edit"
    /\ file = Missing
    /\ last = NoOp
    /\ log = <<>>
    /\ procs = NoWriters

\* the user extends the text buffer
Type(piece) ==
    /\ pc = "edit"
    /\ typed < MaxPieces
    /\ text' = text \o piece
    /\ typed' = typed + 1
    /\ UNCHANGED <<result, pc>>
    /\ UNCHANGED <<historyVars, procs>>

\* result = decode_text(text)
Decode ==
    /\ pc = "edit"
    /\ result' = decode_text(text)
    /\ pc' = "decoded"
    /\ UNCHANGED <<text, typed>>
    /\ UNCHANGED <<historyVars, procs>>

\* the buffer is cleared for the next text
Clear ==
    /\ pc \in {"decoded", "redecoded"}
    /\ text' = <<>>
    /\ typed' = 0
    /\ result' = NoResult
    /\ pc' = "edit"
    /\ UNCHANGED <<historyVars, procs>>

NextDecode ==
    \/ \E piece \in Pieces : Type(piece)
    \/ Decode
    \/ Clear

SpecDecode == Init /\ [][NextDecode]_vars

(***************************************************************************)
(* Decoder: the decoded text is decoded again                              *)
(***************************************************************************)
MaxRePieces == 6

\* "34 31 " (the bytes of "41"), "20 " (the byte of " "), "41 ", ".x "
RePieces ==
    { <<51, 52, 32, 51, 49, 32>>, <<50, 48, 32>>, <<52, 49, 32>>,
      <<46, 120, 32>> }

\* decode_text(decode_text(x).decoded): the output of the decode becomes
\* the input of the next one
Redecode ==
    /\ pc = "decoded"
    /\ text' = result.decoded
    /\ result' = decode_text(result.decoded)
    /\ pc' = "redecoded"
    /\ UNCHANGED typed
    /\ UNCHANGED <<historyVars, procs>>

NextRedecode ==
    \/ \E piece \in RePieces : typed < MaxRePieces /\ Type(piece)
    \/ Decode
    \/ Redecode
    \/ Clear

SpecRedecode == Init /\ [][NextRedecode]_vars

(***************************************************************************)
(* Decoder: apply_replacements on a list its caller built                  *)
(***************************************************************************)
MaxReps == 3

\* the text given to apply_replacements: "abcd"
ApplyText == <<97, 98, 99, 100>>

\* the decoded values of the replacements given: "", "X", "XYZ"
ApplyDecoded == { <<>>, <<88>>, <<88, 89, 90>> }

InitApply ==
    /\ text = ApplyText
    /\ typed = 0
    /\ result = [NoResult EXCEPT !.original = ApplyText]
    /\ pc = "edit"
    /\ file = Missing
    /\ last = NoOp
    /\ log = <<>>
    /\ procs = NoWriters

\* the caller appends a replacement that starts at or after the end of the
\* last one and ends within the text
GiveReplacement(start, end, decoded) ==
    /\ pc = "edit"
    /\ Len(result.replacements) < MaxReps
    /\ start <= end
    /\ IF Len(result.replacements) = 0 THEN TRUE
       ELSE result.replacements[Len(result.replacements)].end <= start
    /\ result' = [result EXCEPT
                     !.replacements =
                         Append(@, [hex_run |-> Slice(text, start, end),
                                    decoded |-> decoded,
                                    start |-> start, end |-> end]),
                     !.num_replacements = @ + 1]
    /\ UNCHANGED <<text, typed, pc>>
    /\ UNCHANGED <<historyVars, procs>>

\* decoded = apply_replacements(text, reps)
Apply ==
    /\ pc = "edit"
    /\ result' = [result EXCEPT
                     !.decoded = apply_replacements(text, result.replacements)]
    /\ pc' = "applied"
    /\ UNCHANGED <<text, typed>>
    /\ UNCHANGED <<historyVars, procs>>

NextApply ==
    \/ \E start, end \in 0..Len(text), decoded \in ApplyDecoded :
          GiveReplacement(start, end, decoded)
    \/ Apply

SpecApply == InitApply /\ [][NextApply]_vars

(***************************************************************************)
(* History: the operations of the store on one history file                *)
(***************************************************************************)
\* the texts whose decode is saved: "41 41 41 .x 41 41 A9" and ".x "
HistTexts ==
    { <<52, 49, 32, 52, 49, 32, 52, 49, 32, 46, 120, 32,
        52, 49, 32, 52, 49, 32, 65, 57>>,
      <<46, 120, 32>> }

\* result = decode_text(text) of save_to_history
HistInputs == {decode_text(t) : t \in HistTexts}

\* the entries a history screen can hold when the user confirms a delete
HistEntries ==
    {NewEntry(r.original, r.decoded, r.replacements, now) :
        r \in HistInputs, now \in 1..MaxTime}

NextHistory ==
    \/ \E r \in HistInputs, now \in 1..MaxTime, readOk \in BOOLEAN,
          write \in WriteOutcomes :
          /\ Len(log) < MaxAppends
          /\ AddToHistory(r.original, r.decoded, r.replacements, now, readOk, write)
    \/ \E entry \in HistEntries, readOk \in BOOLEAN, write \in WriteOutcomes :
          DeleteHistoryEntry(entry, readOk, write)
    \/ \E readOk \in BOOLEAN : LoadHistory(readOk)

Spec == Init /\ [][NextHistory]_vars

(***************************************************************************)
(* History: appends only, without I/O failure, past the retention bound    *)
(***************************************************************************)
\* the text whose decode is saved: "41 41 A9"
FifoText == <<52, 49, 32, 52, 49, 32, 65, 57>>

\* one append; the clock shows a new instant at every call
FifoAppend ==
    /\ Len(log) < MAX_HISTORY_ENTRIES + MaxOverflow
    /\ LET r == decode_text(FifoText)
       IN  AddToHistory(r.original, r.decoded, r.replacements, Len(log) + 1,
                        TRUE, "ok")

NextFifo == FifoAppend

SpecFifo == Init /\ [][NextFifo]_vars

(***************************************************************************)
(* History: loading a file that another program may have written           *)
(***************************************************************************)
\* an entry as save_history writes it
SampleDict ==
    LET r == decode_text(<<52, 49, 32, 52, 49, 32, 65, 57>>)
    IN  to_dict(NewEntry(r.original, r.decoded, r.replacements, 1))

\* the elements of a foreign array: objects with any subset of the entry
\* keys, a number, a string, a nested array
Elements ==
    {[t |-> "object", v |-> [k \in K |-> SampleDict[k]]] : K \in SUBSET EntryKeys}
    \cup {[t |-> "scalar", v |-> <<>>], [t |-> "string", v |-> <<120>>],
          [t |-> "array", v |-> <<>>]}

\* the documents a foreign file can hold
Docs ==
    {[t |-> "binary", v |-> <<>>], [t |-> "invalid", v |-> <<>>],
     [t |-> "scalar", v |-> <<>>],
     [t |-> "string", v |-> <<>>], [t |-> "string", v |-> <<120>>],
     [t |-> "object", v |-> <<>>], [t |-> "object", v |-> <<"a">>]}
    \cup {[t |-> "array", v |-> items] :
             items \in UNION {[1..n -> Elements] : n \in 0..MaxItems}}

InitLoad ==
    /\ text = <<>>
    /\ typed = 0
    /\ result = NoResult
    /\ pc = "edit"
    /\ file \in {Missing} \cup {Holding(d) : d \in Docs}
    /\ last = NoOp
    /\ log = <<>>
    /\ procs = NoWriters

NextLoad == \E readOk \in BOOLEAN : LoadHistory(readOk)

SpecLoad == InitLoad /\ [][NextLoad]_vars

(***************************************************************************)
(* Properties of the decoder                                               *)
(***************************************************************************)
Reps == result.replacements

\* the last character of a non-empty string
LastChar(s) == s[Len(s)]

\* every character of s at the offsets a..b-1 is whitespace
AllSpace(s, a, b) == \A i \in a..(b - 1) : IsSpace(CharAt(s, i))

\* s without its whitespace characters
NoSpace(s) == SelectSeq(s, LAMBDA c : ~IsSpace(c))

\* the bytes a run spells: its hex digits taken two by two
RunBytes(run) == FromHex(NoSpace(run))

\* the offset after the last token of the run of replacement r
CoreEnd(r) == r.start + Len(rstrip(r.hex_run))

\* C7: every replacement returned for a text lies inside the text,
\* 0 <= start < end <= len(text), and text[start:end] is its hex_run.
Thm_C7_PositionInvariant ==
    pc = "decoded" =>
        \A k \in 1..Len(Reps) :
            /\ 0 <= Reps[k].start
            /\ Reps[k].start < Reps[k].end
            /\ Reps[k].end <= Len(text)
            /\ Slice(text, Reps[k].start, Reps[k].end) = Reps[k].hex_run

\* a decode that returned a replacement with text before it and after it
Wit_C7_InnerReplacement ==
    /\ pc = "decoded"
    /\ \E k \in 1..Len(Reps) : Reps[k].start > 0 /\ Reps[k].end < Len(text)

\* C8 as stated: hex_run is the matched run without its trailing
\* whitespace, so no hex_run ends in a whitespace character.
Orig_C8_HexRunStripped ==
    pc = "decoded" =>
        \A k \in 1..Len(Reps) : ~IsSpace(LastChar(Reps[k].hex_run))

\* C8 amended: hex_run is the whole match, trailing whitespace included: it
\* runs from start to the end of all the whitespace that follows the last
\* token, so it ends in whitespace whenever whitespace follows the run.
Thm_C8_HexRunKeepsTrailingWs ==
    pc = "decoded" =>
        \A k \in 1..Len(Reps) :
            /\ Reps[k].hex_run =
                   Slice(text, Reps[k].start, SkipSpace(text, CoreEnd(Reps[k])))
            /\ (CoreEnd(Reps[k]) < Len(text)
                    /\ IsSpace(CharAt(text, CoreEnd(Reps[k])))
                => IsSpace(LastChar(Reps[k].hex_run)))

\* a decode of a run that is followed by whitespace
Wit_C8_RunBeforeWhitespace ==
    /\ pc = "decoded"
    /\ \E k \in 1..Len(Reps) :
          /\ CoreEnd(Reps[k]) < Len(text)
          /\ IsSpace(CharAt(text, CoreEnd(Reps[k])))

\* the text with, left to right from replacement k and offset cursor on,
\* only the span from the first to the last token of each run replaced by
\* the UTF-8 decoding of the run's bytes
RECURSIVE TokensReplaced(_, _, _, _)
TokensReplaced(s, reps, k, cursor) ==
    IF k > Len(reps) THEN Slice(s, cursor, Len(s))
    ELSE Slice(s, cursor, reps[k].start)
         \o Utf8Decode(RunBytes(reps[k].hex_run))
         \o TokensReplaced(s, reps, k + 1, CoreEnd(reps[k]))

\* C9: decoded of a replacement is the UTF-8 decoding of the run's bytes
\* followed by exactly the whitespace that trailed the run, and the decoded
\* text is the original with only the token spans replaced: every other
\* character, the whitespace after a run included, is unchanged.
Thm_C9_SurroundingPreserved ==
    pc = "decoded" =>
        /\ \A k \in 1..Len(Reps) :
              Reps[k].decoded =
                  Utf8Decode(RunBytes(Reps[k].hex_run))
                  \o Slice(text, CoreEnd(Reps[k]), Reps[k].end)
        /\ result.decoded = TokensReplaced(text, Reps, 1, 0)

\* a decode of a run with whitespace and then more text after it
Wit_C9_RunThenWhitespaceThenText ==
    /\ pc = "decoded"
    /\ \E k \in 1..Len(Reps) :
          /\ CoreEnd(Reps[k]) < Reps[k].end
          /\ Reps[k].end < Len(text)

\* tokens at the offsets i < j of s with only whitespace between them
Adjacent(s, i, j) ==
    /\ TokenAt(s, i)
    /\ TokenAt(s, j)
    /\ i + 2 < j
    /\ AllSpace(s, i + 2, j)

\* s contains two, or three, consecutive whitespace-separated hex tokens
HasRun2(s) ==
    \E i \in 0..Len(s) :
        TokenAt(s, i) /\ Adjacent(s, i, SkipSpace(s, i + 2))

HasRun3(s) ==
    \E i \in 0..Len(s) :
        /\ TokenAt(s, i)
        /\ LET j == SkipSpace(s, i + 2)
           IN  Adjacent(s, i, j) /\ Adjacent(s, j, SkipSpace(s, j + 2))

\* the number of hex tokens of s
NumTokens(s) == Cardinality({i \in 0..Len(s) : TokenAt(s, i)})

\* C10: a text without three consecutive whitespace-separated hex tokens
\* decodes to itself with zero replacements, and every replacement that is
\* returned covers at least three tokens.
Thm_C10_MinimumRun ==
    pc = "decoded" =>
        /\ ~HasRun3(text) =>
              /\ Len(Reps) = 0
              /\ result.num_replacements = 0
              /\ result.decoded = result.original
              /\ result.original = text
        /\ \A k \in 1..Len(Reps) : NumTokens(Reps[k].hex_run) >= 3

\* a decode of a text whose longest run has two tokens
Wit_C10_TwoTokenRun ==
    /\ pc = "decoded"
    /\ HasRun2(text)
    /\ ~HasRun3(text)

\* three whitespace-separated tokens start at offset i of s, the third
\* followed by whitespace or by the end of s
Run3At(s, i) ==
    /\ TokenAt(s, i)
    /\ LET j == SkipSpace(s, i + 2)
       IN  /\ j > i + 2
           /\ TokenAt(s, j)
           /\ LET k == SkipSpace(s, j + 2)
              IN  /\ k > j + 2
                  /\ TokenAt(s, k)
                  /\ (k + 2 = Len(s) \/ IsSpace(CharAt(s, k + 2)))

\* the character at offset p of s is neither whitespace nor a hex digit
Prose(s, p) == ~IsSpace(CharAt(s, p)) /\ ~IsHex(CharAt(s, p))

\* C11: the replacements are in strictly ascending order of start and do
\* not overlap (a.end <= b.start for consecutive a, b), so an offset of the
\* text lies in at most one of them; two runs with non-hex text between
\* them are reported as two replacements, one on each side of that text.
Thm_C11_OrderedDisjoint ==
    pc = "decoded" =>
        /\ \A k \in 1..(Len(Reps) - 1) :
              /\ Reps[k].start < Reps[k + 1].start
              /\ Reps[k].end <= Reps[k + 1].start
        /\ \A p \in 0..(Len(text) - 1) :
              Cardinality({k \in 1..Len(Reps) :
                              Reps[k].start <= p /\ p < Reps[k].end}) <= 1
        /\ \A i \in 0..Len(text) :
              Run3At(text, i) =>
                  \A i2 \in (i + 1)..Len(text) :
                      Run3At(text, i2) =>
                          \A p \in (i + 1)..(i2 - 1) :
                              Prose(text, p) =>
                                  \E a, b \in 1..Len(Reps) :
                                      /\ a < b
                                      /\ Reps[a].start <= i
                                      /\ Reps[a].end <= p
                                      /\ p < Reps[b].start
                                      /\ Reps[b].start <= i2

\* a decode of a text with two runs and prose between them
Wit_C11_TwoRuns ==
    /\ pc = "decoded"
    /\ Len(Reps) = 2
    /\ \E p \in Reps[1].end..(Reps[2].start - 1) : Prose(text, p)

\* s starts with a token, ends with a token and holds nothing but tokens
\* and the whitespace that separates them
OnlyTokens(s) ==
    /\ TokenAt(s, 0)
    /\ ~IsSpace(LastChar(s))
    /\ \A i \in 0..(Len(s) - 1) :
          \/ IsSpace(CharAt(s, i))
          \/ TokenAt(s, i)
          \/ (i > 0 /\ TokenAt(s, i - 1))

\* C12: a text made only of n >= 3 whitespace-separated tokens gives
\* exactly one replacement, from 0 to len(text), whose decoded value is the
\* UTF-8 decoding of all n bytes; the run is not split.
Thm_C12_MaximalRun ==
    (pc = "decoded" /\ OnlyTokens(text) /\ NumTokens(text) >= 3) =>
        /\ Len(Reps) = 1
        /\ result.num_replacements = 1
        /\ Reps[1].start = 0
        /\ Reps[1].end = Len(text)
        /\ Len(RunBytes(text)) = NumTokens(text)
        /\ Reps[1].decoded = Utf8Decode(RunBytes(text))
        /\ result.decoded = Utf8Decode(RunBytes(text))

\* a decode of a text made of five tokens or more, one of them after a
\* newline
Wit_C12_LongRun ==
    /\ pc = "decoded"
    /\ OnlyTokens(text)
    /\ NumTokens(text) >= 5
    /\ \E i \in 0..(Len(text) - 1) : CharAt(text, i) = NL

\* bs, from index i on, is well-formed UTF-8
RECURSIVE Utf8ValidFrom(_, _)
Utf8ValidFrom(bs, i) ==
    \/ i > Len(bs)
    \/ LET need == Utf8Need(bs[i])
       IN  /\ need >= 0
           /\ need = 0 \/ Utf8Good(bs, i, need) = need
           /\ Utf8ValidFrom(bs, i + need + 1)

HasPlaceholder(str) == \E k \in 1..Len(str) : str[k] = REPLACEMENT_CHAR

\* C17: every run of the text is reported, whatever its bytes: each run of
\* three tokens lies inside a replacement, and a replacement whose bytes
\* are not well-formed UTF-8 carries U+FFFD in its decoded value (and in
\* the decoded text) instead of being dropped or emptied.
Thm_C17_IllFormedRunsReplaced ==
    pc = "decoded" =>
        /\ result.num_replacements = Len(Reps)
        /\ \A i \in 0..Len(text) :
              Run3At(text, i) =>
                  \E k \in 1..Len(Reps) : Reps[k].start <= i /\ i < Reps[k].end
        /\ \A k \in 1..Len(Reps) :
              /\ Len(Reps[k].decoded) > 0
              /\ ~Utf8ValidFrom(RunBytes(Reps[k].hex_run), 1) =>
                    /\ HasPlaceholder(Reps[k].decoded)
                    /\ HasPlaceholder(result.decoded)

\* a decode of a text with an ill-formed run and a well-formed run
Wit_C17_IllFormedBesideWellFormed ==
    /\ pc = "decoded"
    /\ Len(Reps) = 2
    /\ \E j, k \in 1..2 :
          /\ ~Utf8ValidFrom(RunBytes(Reps[j].hex_run), 1)
          /\ Utf8ValidFrom(RunBytes(Reps[k].hex_run), 1)
          /\ ~HasPlaceholder(Reps[k].decoded)

\* C13 as stated: decoding the output of a decode changes nothing,
\* decode_text(decode_text(x).decoded).decoded = decode_text(x).decoded.
Orig_C13_RedecodeIdempotent ==
    pc = "redecoded" =>
        /\ result.decoded = result.original
        /\ result.num_replacements = 0

\* one left-to-right pass: copy s[cursor:r.start], emit r.decoded, go on
\* from r.end; the rest of s after the last replacement
RECURSIVE ForwardSplice(_, _, _, _)
ForwardSplice(s, reps, k, cursor) ==
    IF k > Len(reps) THEN Slice(s, cursor, Len(s))
    ELSE Slice(s, cursor, reps[k].start)
         \o reps[k].decoded
         \o ForwardSplice(s, reps, k + 1, reps[k].end)

\* C18: for replacements sorted by start, in range and pairwise
\* non-overlapping, apply_replacements returns what one left-to-right
\* splice of the text returns, whatever the lengths of the decoded values.
Thm_C18_ReverseEqualsForward ==
    pc = "applied" => result.decoded = ForwardSplice(text, Reps, 1, 0)

\* an application of three replacements: the first longer than its span,
\* the second shorter, the third an insertion at the end of the second
Wit_C18_LengthsDiffer ==
    /\ pc = "applied"
    /\ Len(Reps) = 3
    /\ Len(Reps[1].decoded) > Reps[1].end - Reps[1].start
    /\ Len(Reps[2].decoded) < Reps[2].end - Reps[2].start
    /\ Reps[3].start = Reps[2].end
    /\ Reps[3].end = Reps[3].start
    /\ Len(Reps[3].decoded) > 0

(***************************************************************************)
(* History: save_history and load_history called on their own              *)
(***************************************************************************)
MaxSaved == 2

\* the entries of the collections saved: one with two replacements, one
\* with none
SavedEntries == {NewEntry(r.original, r.decoded, r.replacements, 1) : r \in HistInputs}

\* the collections given to save_history
SavedCollections == UNION {[1..n -> SavedEntries] : n \in 0..MaxSaved}

\* save_history(history)
SaveHistory(history, write) ==
    /\ file' = save_history(file, history, write)
    /\ last' = [NoOp EXCEPT !.op = "save", !.before = file, !.value = history,
                            !.saved = write]
    /\ UNCHANGED log
    /\ UNCHANGED <<decoderVars, procs>>

NextRoundTrip ==
    \/ \E history \in SavedCollections, write \in WriteOutcomes :
          SaveHistory(history, write)
    \/ \E readOk \in BOOLEAN : LoadHistory(readOk)

SpecRoundTrip == Init /\ [][NextRoundTrip]_vars

(***************************************************************************)
(* History: appends, deletes and counts up to and past the retention bound *)
(* without I/O failure of the writers                                      *)
(***************************************************************************)
\* the text whose decode is saved: ".x "
RetainText == <<46, 120, 32>>

\* the instants of the entries a delete is asked for: the first entry and
\* the one that fills the collection
DeleteTimes == {1, MAX_HISTORY_ENTRIES}

\* the history file is missing, empty, or holds []
InitRetain ==
    /\ text = <<>>
    /\ typed = 0
    /\ result = NoResult
    /\ pc = "edit"
    /\ file \in {Missing, Holding(Truncated), Holding(JsonArray(<<>>))}
    /\ last = NoOp
    /\ log = <<>>
    /\ procs = NoWriters

\* one append; the clock shows a new instant at every call
RetainAppend ==
    /\ Len(log) < MAX_HISTORY_ENTRIES + MaxOverflow
    /\ AddToHistory(RetainText, RetainText, <<>>, Len(log) + 1, TRUE, "ok")

\* one delete of an entry appended before
RetainDelete ==
    \E now \in DeleteTimes :
        /\ now <= Len(log)
        /\ DeleteHistoryEntry(log[now], TRUE, "ok")

NextRetain ==
    \/ RetainAppend
    \/ RetainDelete
    \/ \E readOk \in BOOLEAN : GetHistoryCount(readOk)

SpecRetain == InitRetain /\ [][NextRetain]_vars

(***************************************************************************)
(* History: two processes call the store with no lock.  A call is three    *)
(* steps: load_history and the change of the loaded list; the open(.., 'w') *)
(* of save_history, which truncates the file; the json.dump and close,     *)
(* which write the list.  No I/O error occurs.                             *)
(***************************************************************************)
\* the entry persisted before the two calls, and an entry never persisted
ConcBase == NewEntry(RetainText, RetainText, <<>>, 1)
ConcAbsent == NewEntry(RetainText, RetainText, <<>>, 0)

InitConc ==
    /\ text = <<>>
    /\ typed = 0
    /\ result = NoResult
    /\ pc = "edit"
    /\ file = save_history(Missing, <<ConcBase>>, "ok")
    /\ last = NoOp
    /\ log = <<>>
    /\ procs = NoWriters

\* another process is between its load and the end of its save
Busy(p) == \E q \in Procs \ {p} : procs[q].pc \in {"loaded", "opened"}

\* add_to_history up to its call of save_history
ConcAdd(p) ==
    LET ld == load_history(file, TRUE)
        entry == NewEntry(RetainText, RetainText, <<>>, Len(log) + 2)
    IN  /\ procs[p].pc = "idle"
        /\ procs' = [procs EXCEPT ![p] =
                        [pc |-> "loaded", op |-> "add", entry |-> entry,
                         history |-> Retain(Append(ld.value, entry)),
                         ret |-> FALSE, overlapped |-> Busy(p)]]
        /\ log' = Append(log, entry)
        /\ UNCHANGED <<file, last>>
        /\ UNCHANGED decoderVars

\* delete_history_entry(entry) up to its call of save_history, or to its
\* return False when no entry matches
ConcDelete(p, entry) ==
    LET ld == load_history(file, TRUE)
        i == ScanFrom(ld.value, entry, 1)
    IN  /\ procs[p].pc = "idle"
        /\ procs' = [procs EXCEPT ![p] =
                        [pc |-> IF i > 0 THEN "loaded" ELSE "done",
                         op |-> "delete", entry |-> entry,
                         history |-> IF i > 0 THEN Pop(ld.value, i) ELSE <<>>,
                         ret |-> FALSE, overlapped |-> Busy(p)]]
        /\ UNCHANGED <<file, last, log>>
        /\ UNCHANGED decoderVars

\* save_history: open(HISTORY_FILE, 'w') leaves the file empty
ConcOpen(p) ==
    /\ procs[p].pc = "loaded"
    /\ file' = save_history(file, procs[p].history, "write_fails")
    /\ procs' = [procs EXCEPT ![p].pc = "opened"]
    /\ UNCHANGED <<last, log>>
    /\ UNCHANGED decoderVars

\* save_history: json.dump and close write the list from offset 0.  When
\* another process wrote after this one opened the file, its bytes are
\* overwritten from the start: a longer list leaves a tail behind and the
\* file is no JSON document (the entries here have one size, so the longer
\* list is the one with more entries).
ConcWrite(p) ==
    LET history == procs[p].history
        torn == Len(load_history(file, TRUE).value) > Len(history)
    IN  /\ procs[p].pc = "opened"
        /\ file' = IF torn THEN Holding(Truncated)
                   ELSE save_history(file, history, "ok")
        /\ procs' = [procs EXCEPT ![p].pc = "done",
                                  ![p].ret = (procs[p].op = "delete")]
        /\ last' = [NoOp EXCEPT !.op = procs[p].op, !.before = file,
                                !.entry = procs[p].entry, !.value = history,
                                !.saved = "ok",
                                !.ret = (procs[p].op = "delete")]
        /\ UNCHANGED log
        /\ UNCHANGED decoderVars

NextConc ==
    \E p \in Procs :
        \/ ConcAdd(p)
        \/ \E entry \in {ConcBase, ConcAbsent} : ConcDelete(p, entry)
        \/ ConcOpen(p)
        \/ ConcWrite(p)

SpecConc == InitConc /\ [][NextConc]_vars

(***************************************************************************)
(* History: every operation of the store on a file it did not write        *)
(***************************************************************************)
MaxForeignAppends == 1

NextForeign ==
    \/ \E readOk \in BOOLEAN, write \in WriteOutcomes :
          /\ Len(log) < MaxForeignAppends
          /\ AddToHistory(RetainText, RetainText, <<>>, Len(log) + 2, readOk, write)
    \/ \E readOk \in BOOLEAN, write \in WriteOutcomes :
          DeleteHistoryEntry(from_dict(SampleDict), readOk, write)
    \/ \E readOk \in BOOLEAN : LoadHistory(readOk)
    \/ \E readOk \in BOOLEAN : GetHistoryCount(readOk)

SpecForeign == InitLoad /\ [][NextForeign]_vars

(***************************************************************************)
(* Properties of the history store                                         *)
(***************************************************************************)
\* the collection the file f holds: its entries when it is an array of
\* objects, none otherwise
Persisted(f) ==
    IF f.exists /\ f.doc.t = "array"
       /\ \A k \in 1..Len(f.doc.v) : f.doc.v[k].t = "object"
    THEN [k \in 1..Len(f.doc.v) |-> from_dict(f.doc.v[k].v)]
    ELSE <<>>

Before == Persisted(last.before)
After == Persisted(file)

\* the identity of an entry
Triple(e) == <<e.timestamp, e.original, e.decoded>>

\* the indices of the entries of the collection c with the identity of e
Matching(c, e) == {k \in 1..Len(c) : Triple(c[k]) = Triple(e)}

\* the least element of a non-empty set of naturals
Least(S) == CHOOSE k \in S : \A j \in S : k <= j

\* the collection c without its entry at index i
Without(c, i) == [k \in 1..(Len(c) - 1) |-> IF k < i THEN c[k] ELSE c[k + 1]]

SaveFailed == last.saved \in {"open_fails", "write_fails"}

\* C1: from a missing file, after n appends without I/O failure the file
\* holds exactly the last min(n, 1000) appended entries in append order;
\* past the bound the first-appended entry is gone.
Thm_C1_FifoRetention ==
    LET n == Len(log)
        kept == Min(n, MAX_HISTORY_ENTRIES)
        after == Persisted(file)
    IN  /\ Len(after) = kept
        /\ after = SubSeq(log, n - kept + 1, n)
        /\ n > MAX_HISTORY_ENTRIES => \A k \in 1..kept : after[k] # log[1]

\* 1001 appends have been made
Wit_C1_OneEvicted ==
    /\ Len(log) = MAX_HISTORY_ENTRIES + 1
    /\ last.op = "add"
    /\ Len(Before) = MAX_HISTORY_ENTRIES

\* C2: a delete of an identity no persisted entry has returns False, raises
\* nothing and leaves the file as it was.
Thm_C2_DeleteAbsentIsNoOp ==
    (last.op = "delete" /\ Matching(Before, last.entry) = {}) =>
        /\ last.ret = FALSE
        /\ last.raised = "none"
        /\ file = last.before

\* a delete, on a readable non-empty collection, of an identity that differs
\* from a persisted one only in its texts
Wit_C2_NearMiss ==
    /\ last.op = "delete"
    /\ last.readOk
    /\ Matching(Before, last.entry) = {}
    /\ \E k \in 1..Len(Before) : Before[k].timestamp = last.entry.timestamp

NotACollection(f, readOk) ==
    \/ ~f.exists
    \/ ~readOk
    \/ f.doc.t # "array"
    \/ \E k \in 1..Len(f.doc.v) : f.doc.v[k].t # "object"

Orig_C4_LoadNeverRaises ==
    (last.op = "load" /\ NotACollection(last.before, last.readOk)) =>
        /\ last.raised = "none"
        /\ last.value = <<>>

\* C5: a save whose open or write fails raises nothing and leaves the file
\* as it was before the call.
Orig_C5_FailedSaveIsNoOp ==
    SaveFailed =>
        /\ last.raised = "none"
        /\ file = last.before

\* C6: a successful append to a collection of fewer than 1000 entries leaves
\* the previous collection followed by one new entry that has the given
\* texts, the number of given replacements and one record per given
\* replacement, in order, with the same start, end, hex_run and decoded.
Thm_C6_AppendSnapshot ==
    (/\ last.op = "add"
     /\ last.readOk
     /\ last.saved = "ok"
     /\ Len(Before) < MAX_HISTORY_ENTRIES) =>
        /\ Len(After) = Len(Before) + 1
        /\ SubSeq(After, 1, Len(Before)) = Before
        /\ LET e == After[Len(After)]
           IN  /\ e.original = last.original
               /\ e.decoded = last.decoded
               /\ e.num_replacements = Len(last.reps)
               /\ Len(e.replacements) = Len(last.reps)
               /\ \A k \in 1..Len(last.reps) :
                     /\ DOMAIN e.replacements[k] = {"start", "end", "hex_run", "decoded"}
                     /\ e.replacements[k].start = last.reps[k].start
                     /\ e.replacements[k].end = last.reps[k].end
                     /\ e.replacements[k].hex_run = last.reps[k].hex_run
                     /\ e.replacements[k].decoded = last.reps[k].decoded

\* a successful append of a decode with two replacements to a collection
\* that already holds an entry
Wit_C6_TwoReplacementsAppended ==
    /\ last.op = "add"
    /\ last.readOk
    /\ last.saved = "ok"
    /\ Len(Before) >= 1
    /\ Len(last.reps) = 2

\* f holds a JSON array whose elements are all objects
ArrayOfObjects(f) ==
    /\ f.exists
    /\ f.doc.t = "array"
    /\ \A k \in 1..Len(f.doc.v) : f.doc.v[k].t = "object"

\* C16: a load of an array of objects, whatever keys each object lacks,
\* raises nothing and returns one entry per object, in the same position,
\* with the object's value for each key it holds and '' (timestamp,
\* original, decoded), 0 (num_replacements) or [] (replacements) for each
\* key it lacks.
Thm_C16_MissingKeysDefaulted ==
    (last.op = "load" /\ last.readOk /\ ArrayOfObjects(last.before)) =>
        LET items == last.before.doc.v
        IN  /\ last.raised = "none"
            /\ Len(last.value) = Len(items)
            /\ \A k \in 1..Len(items) :
                  LET d == items[k].v
                      e == last.value[k]
                      has(key) == key \in DOMAIN d
                  IN  /\ e.timestamp = IF has("timestamp") THEN d.timestamp ELSE <<>>
                      /\ e.original = IF has("original") THEN d.original ELSE <<>>
                      /\ e.decoded = IF has("decoded") THEN d.decoded ELSE <<>>
                      /\ e.num_replacements =
                            IF has("num_replacements") THEN d.num_replacements ELSE 0
                      /\ e.replacements =
                            IF has("replacements") THEN d.replacements ELSE <<>>

\* a load of two objects, the first complete, the second with only its
\* timestamp
Wit_C16_OldEntryLoaded ==
    /\ last.op = "load"
    /\ last.readOk
    /\ ArrayOfObjects(last.before)
    /\ Len(last.value) = 2
    /\ DOMAIN last.before.doc.v[1].v = EntryKeys
    /\ DOMAIN last.before.doc.v[2].v = {"timestamp"}
    /\ last.value[1].num_replacements = 1
    /\ last.value[2].original = <<>>

Thm_C19_RetentionBound ==
    LET held == Len(Persisted(file))
    IN  /\ held <= MAX_HISTORY_ENTRIES
        /\ last.op = "count" =>
              /\ last.raised = "none"
              /\ last.count <= MAX_HISTORY_ENTRIES
              /\ last.count = IF last.readOk THEN held ELSE 0

\* a count of a collection that is full again after a delete took an entry
\* out of it
Wit_C19_CountOfFullCollection ==
    /\ last.op = "count"
    /\ last.readOk
    /\ last.count = MAX_HISTORY_ENTRIES
    /\ Len(log) = MAX_HISTORY_ENTRIES + 1
    /\ \E k \in 1..MAX_HISTORY_ENTRIES :
          Persisted(file)[k].timestamp # log[k + 1].timestamp

\* no process is inside a call
Quiescent == \A p \in Procs : procs[p].pc \in {"idle", "done"}

AllDone == \A p \in Procs : procs[p].pc = "done"

\* no call began while another was between its load and the end of its save
NoOverlap == \A p \in Procs : ~procs[p].overlapped

\* the collection with every update of the calls made: the entry persisted
\* at the start unless a delete returned True, then every appended entry
\* in call order
AllUpdates ==
    (IF \E p \in Procs : procs[p].op = "delete" /\ procs[p].ret
     THEN <<>> ELSE <<ConcBase>>) \o log

\* C15: when the calls of the two processes do not interleave, no update
\* is lost: once they returned, the persisted collection holds every
\* appended entry and no deleted one.  Whatever the interleaving, the file
\* left by the last save holds the list of that save alone, or no JSON
\* document.
Thm_C15_SerialCallsKeepUpdates ==
    /\ (Quiescent /\ NoOverlap) => Persisted(file) = AllUpdates
    /\ (AllDone /\ last.op # "none") =>
          \/ Persisted(file) = last.value
          \/ file = Holding(Truncated)

\* two interleaved appends returned and the file holds the persisted entry
\* and the second appended entry: the first appended entry is lost
Wit_C15_AppendLost ==
    /\ AllDone
    /\ \A p \in Procs : procs[p].op = "add"
    /\ ~NoOverlap
    /\ Len(log) = 2
    /\ Persisted(file) = <<ConcBase, log[2]>>
    /\ Persisted(file) = last.value

\* an interleaved append and delete returned, the delete returned True and
\* the entry it removed is persisted again
DeletedEntryBack ==
    /\ AllDone
    /\ \E p \in Procs : procs[p].op = "delete" /\ procs[p].ret
    /\ \E p \in Procs : procs[p].op = "add"
    /\ Persisted(file) = <<ConcBase>> \o log

\* C22 as stated: whenever delete_history_entry returns True, a failed
\* save included, the persisted collection is the one before the call
\* without the first entry that matched, one entry shorter.
Orig_C22_TrueMeansGone ==
    (last.op = "delete" /\ last.ret) =>
        /\ Len(After) = Len(Before) - 1
        /\ After = Without(Before, Least(Matching(Before, last.entry)))

\* the file f exists and load_history does not get a collection from it:
\* the read fails, or the content is not a JSON array of objects
LoadFails(f, readOk) == f.exists /\ (~readOk \/ ~ArrayOfObjects(f))

\* C21 as stated: an append over a file whose load fails raises nothing
\* and saves, and after a successful write the file holds the new entry
\* alone; a load, a count or a delete over such a file leaves it as it was.
Orig_C21_AppendStartsOver ==
    /\ (last.op = "add" /\ LoadFails(last.before, last.readOk)) =>
          /\ last.raised = "none"
          /\ last.saved # "none"
          /\ last.saved = "ok" => After = <<last.entry>>
    /\ (last.op \in {"load", "count", "delete"}
        /\ LoadFails(last.before, last.readOk)) => file = last.before

====
